---- MODULE Spec2Model ----
(***************************************************************************)
(* State-machine model of the sample cache (samples/cache.js) and the      *)
(* resumable downloader (samples/downloader.js) of strudel-cli.            *)
(*                                                                         *)
(* The manifest's samples map is a sequence of entries in insertion order  *)
(* (the order Object.entries yields), urls and packs are maps keyed by     *)
(* URL, and files is the cache directory: the bytes stored at each         *)
(* relative path, or NoFile.  SHA-256 is modelled as a collision-free      *)
(* digest: the digest of a byte sequence is the sequence itself, tagged.   *)
(***************************************************************************)
EXTENDS Integers, Sequences, FiniteSets, TLC

\* ---------------------------------------------------------------- bounds
MaxLen == 2          \* longest payload handed to addSample / setByUrl
MaxOps == 3          \* operations called in one run
MaxSizeBytes == 2    \* this.maxSizeMB * 1024 * 1024, in bytes of the model

\* ---------------------------------------------------------------- domains
\* URLs of single files, of two hosts with one basename
SOURCES == {"http://h/x", "http://g/x"}

\* URLs of packs with the name of an archive
ARCHIVES == {"http://h/p.zip", "http://h/p.ZIP", "http://h/p.tgz"}

URLS == SOURCES \cup ARCHIVES

\* path.basename(url)
Basename(url) ==
    CASE url = "http://h/x" -> "x"
      [] url = "http://g/x" -> "x"
      [] url = "http://h/p.zip" -> "p.zip"
      [] url = "http://h/p.ZIP" -> "p.ZIP"
      [] url = "http://h/p.tgz" -> "p.tgz"

\* a file name as the sequence of its characters
Chars(name) ==
    CASE name = "x" -> <<"x">>
      [] name = "p.zip" -> <<"p", ".", "z", "i", "p">>
      [] name = "p.ZIP" -> <<"p", ".", "Z", "I", "P">>
      [] name = "p.tgz" -> <<"p", ".", "t", "g", "z">>

\* String.prototype.endsWith
EndsWith(str, suffix) ==
    /\ Len(suffix) <= Len(str)
    /\ SubSeq(str, Len(str) - Len(suffix) + 1, Len(str)) = suffix

\* the case folding of the regular expression flag i
ToLowerCase(c) ==
    CASE c = "Z" -> "z"
      [] c = "I" -> "i"
      [] c = "P" -> "p"
      [] c = "T" -> "t"
      [] c = "G" -> "g"
      [] c = "A" -> "a"
      [] c = "R" -> "r"
      [] OTHER -> c

FoldCase(str) == [i \in 1..Len(str) |-> ToLowerCase(str[i])]

DotZip == <<".", "z", "i", "p">>
DotTarGz == <<".", "t", "a", "r", ".", "g", "z">>
DotTgz == <<".", "t", "g", "z">>

\* SampleDownloader._isArchive: /\.(zip|tar\.gz|tgz)$/i
isArchive(str) ==
    \E suffix \in {DotZip, DotTarGz, DotTgz} : EndsWith(FoldCase(str), suffix)

\* SampleDownloader._extractArchive: the tool it runs for the name, "none"
\* when it throws Unsupported archive format
extractArchive(str) ==
    IF EndsWith(str, DotZip) THEN "unzip"
    ELSE IF EndsWith(str, DotTarGz) \/ EndsWith(str, DotTgz) THEN "tar"
    ELSE "none"

\* path.join('packs', path.basename(url), path.basename(url))
PackPath(url) == "packs/" \o Basename(url) \o "/" \o Basename(url)

\* path.join('remote', path.basename(new URL(url).pathname))
RemotePath(url) == "remote/" \o Basename(url)

PATHS == {"a.wav", "remote/x", "packs/x/x"}

\* every path of the cache directory: those and the downloaded archives
FILES == PATHS \cup {PackPath(url) : url \in ARCHIVES}

NoFile == [exists |-> FALSE, bytes |-> <<>>]
File(b) == [exists |-> TRUE, bytes |-> b]

NoPath == "-"

\* constant-byte payloads of every length up to MaxLen ('a'.repeat(n))
Fill(b, n) == [i \in 1..n |-> b]
DATA == {Fill(1, n) : n \in 0..MaxLen}

\* the payload the remote server serves for every URL
ServerPayload == <<1, 2, 1>>

\* options.expectedHash: undefined, or a hex digest
NoExpected == [given |-> FALSE, hash |-> [sha256 |-> <<>>]]
Expect(h) == [given |-> TRUE, hash |-> h]

\* crypto.createHash('sha256').update(data).digest('hex')
Sha256(data) == [sha256 |-> data]

NoPack == [present |-> FALSE, path |-> NoPath, hash |-> Sha256(<<>>), downloadedAt |-> 0,
           extracted |-> FALSE]

VARIABLES
    samples,   \* manifest.samples, entries in insertion order
    urls,      \* manifest.urls : url -> relative path (or NoPath)
    packs,     \* manifest.packs : url -> pack record (or NoPack)
    files,     \* the cache directory: relative path -> file
    clock,     \* Date.now(), in milliseconds
    dl,        \* the downloadPack call in progress, if any
    ops,       \* the number of operations called so far
    last,      \* the operation that completed last, nothing begun since (history)
    disk,      \* the manifest file, as last written
    temps,     \* the number of .download-* temp files in the cache directory
    peer,      \* the manifest of a second process on the same directory
    calls,     \* the addSample calls in progress on this instance
    orch       \* the Orchestrator: isInitialized and currentMode

vars == <<samples, urls, packs, files, clock, dl, ops, last, disk, temps, peer,
          calls, orch>>

\* ---------------------------------------------------------------- helpers
RECURSIVE SumSizes(_)
SumSizes(s) == IF s = <<>> THEN 0 ELSE Head(s).size + SumSizes(Tail(s))

Keys(s) == {s[i].path : i \in 1..Len(s)}

HasEntry(s, p) == p \in Keys(s)

IndexOf(s, p) == CHOOSE i \in 1..Len(s) : s[i].path = p

EntryOf(s, p) == s[IndexOf(s, p)]

DeleteKey(s, p) == SelectSeq(s, LAMBDA e : e.path # p)

PutEntryAppends(s, entry) == Append(s, entry)

\* samples[p] = entry: an existing key keeps its place, a new key goes last
PutEntry(s, entry) ==
    IF HasEntry(s, entry.path)
    THEN [s EXCEPT ![IndexOf(s, entry.path)] = entry]
    ELSE Append(s, entry)

\* existsSync(path.join(cacheDir, p))
ExistsSync(f, p) == f[p].exists

\* new Date(): the clock reads the same millisecond or a later one
Nows == {clock, clock + 1}

NoLast == [op |-> "none", path |-> NoPath, url |-> NoPath, data |-> <<>>,
           ok |-> TRUE, err |-> "", had |-> FALSE, hadUrl |-> FALSE,
           afterAdd |-> FALSE, over |-> FALSE, pre |-> <<>>,
           hash |-> [sha256 |-> <<>>], restarted |-> FALSE, initial |-> NoFile,
           expected |-> NoExpected, srv |-> "none", wfail |-> FALSE,
           prevUrl |-> NoPath, afterSet |-> FALSE, result |-> FALSE,
           got |-> NoFile, report |-> <<>>, prevPath |-> NoPath,
           prevPack |-> NoPack, extractor |-> "", mode |-> ""]

\* the concurrent callers of one cache instance
CALLERS == {1, 2}

\* no addSample call in a slot; otherwise its position, its arguments, the
\* size stat returned, and the snapshot and running size of _cleanupCache
NoCall == [pc |-> "idle", path |-> NoPath, data |-> <<>>, size |-> 0,
           queue |-> <<>>, currentSize |-> 0, raced |-> FALSE, err |-> ""]

\* currentMode = null
NoMode == [name |-> "", state |-> "none", isPlaying |-> FALSE]

\* the Orchestrator after its constructor
NoOrch == [isInitialized |-> FALSE, currentMode |-> NoMode]

Idle == [pc |-> "idle", url |-> NoPath, expected |-> NoExpected, srv |-> "none",
         start |-> 0, hash |-> <<>>, status |-> 0, body |-> <<>>, written |-> 0,
         inner |-> FALSE, outerHash |-> <<>>, initial |-> NoFile,
         prevPath |-> NoPath, prevPack |-> NoPack, extractor |-> ""]

\* ---------------------------------------------------------------- cache
\* the manifest and the directory as one value, threaded through the
\* nested calls of an operation
Mk(s, u, f) == [samples |-> s, urls |-> u, files |-> f]

removeSampleNoCascade(st, p) ==
    IF ExistsSync(st.files, p)
    THEN Mk(DeleteKey(st.samples, p), st.urls, [st.files EXCEPT ![p] = NoFile])
    ELSE st

\* SampleCache.removeSample
removeSample(st, p) ==
    IF ExistsSync(st.files, p)
    THEN Mk(DeleteKey(st.samples, p),
            [u \in URLS |-> IF st.urls[u] = p THEN NoPath ELSE st.urls[u]],
            [st.files EXCEPT ![p] = NoFile])
    ELSE st

\* Array.prototype.sort((a, b) => a.lastAccessed - b.lastAccessed): stable
RECURSIVE InsertByLastAccessed(_, _)
InsertByLastAccessed(sorted, e) ==
    IF sorted = <<>> THEN <<e>>
    ELSE IF Head(sorted).lastAccessed <= e.lastAccessed
         THEN <<Head(sorted)>> \o InsertByLastAccessed(Tail(sorted), e)
         ELSE <<e>> \o sorted

RECURSIVE SortByLastAccessed(_)
SortByLastAccessed(s) ==
    IF s = <<>> THEN <<>>
    ELSE InsertByLastAccessed(SortByLastAccessed(SubSeq(s, 1, Len(s) - 1)), s[Len(s)])

\* currentSize <= maxSizeBytes * 0.8
UnderTarget(currentSize) == currentSize * 10 <= MaxSizeBytes * 8

\* the for loop of _cleanupCache over the sorted snapshot
RECURSIVE CleanupLoop(_, _, _)
CleanupLoop(st, sorted, currentSize) ==
    IF sorted = <<>> \/ UnderTarget(currentSize) THEN st
    ELSE CleanupLoop(removeSample(st, Head(sorted).path), Tail(sorted),
                     currentSize - Head(sorted).size)

\* SampleCache._cleanupCache
cleanupCache(st) ==
    CleanupLoop(st, SortByLastAccessed(st.samples), SumSizes(st.samples))

OverLimitAtCap(s) == SumSizes(s) >= MaxSizeBytes

\* totalSizeBytes > maxSizeBytes
OverLimit(s) == SumSizes(s) > MaxSizeBytes

\* SampleCache._checkCacheSize
checkCacheSize(st) == IF OverLimit(st.samples) THEN cleanupCache(st) ELSE st

\* the manifest and directory of addSample before its eviction check
Upsert(st, p, data, now) ==
    Mk(PutEntry(st.samples,
                [path |-> p, size |-> Len(data), hash |-> Sha256(data),
                 cachedAt |-> now, lastAccessed |-> now]),
       st.urls,
       [st.files EXCEPT ![p] = File(data)])

\* SampleCache.addSample
addSample(st, p, data, now) == checkCacheSize(Upsert(st, p, data, now))

updateAccessTimeResetsEntry(s, p, now) ==
    IF HasEntry(s, p)
    THEN [s EXCEPT ![IndexOf(s, p)].lastAccessed = now,
                   ![IndexOf(s, p)].cachedAt = now]
    ELSE s

\* SampleCache.updateAccessTime: the samples map it leaves
updateAccessTime(s, p, now) ==
    IF HasEntry(s, p)
    THEN [s EXCEPT ![IndexOf(s, p)].lastAccessed = now]
    ELSE s

\* SampleCache.isCached
isCached(f, p) == ExistsSync(f, p)

\* SampleCache.getCachedPath: the path, or null
getCachedPath(f, p) == IF ExistsSync(f, p) THEN p ELSE NoPath

verifySampleEntryOnly(s, f, p) == HasEntry(s, p)

verifySampleFileOnly(s, f, p) == HasEntry(s, p) /\ ExistsSync(f, p)

\* SampleCache.verifySample
verifySample(s, f, p) ==
    /\ HasEntry(s, p)
    /\ ExistsSync(f, p)
    /\ Sha256(f[p].bytes) = EntryOf(s, p).hash

\* SampleCache.verifyAll: one report {path, ok} for every known sample
verifyAll(s, f) ==
    [i \in 1..Len(s) |-> [path |-> s[i].path, ok |-> verifySample(s, f, s[i].path)]]

\* SampleCache.getByUrl: the Buffer it returns, NoFile for null
getByUrl(u, f, url) ==
    IF u[url] = NoPath THEN NoFile
    ELSE IF getCachedPath(f, u[url]) = NoPath THEN NoFile
    ELSE File(f[u[url]].bytes)

\* ---------------------------------------------------------------- downloader
\* fs.stat(destPath): start = resume ? stat.size : 0, and 0 when absent
StatStart(f, dest, resume) ==
    IF ExistsSync(f, dest) /\ resume THEN Len(f[dest].bytes) ELSE 0

SeedHashSkipsExisting(f, dest, start) == <<>>

\* the running hash after seeding: the existing bytes when start > 0
SeedHash(f, dest, start) == IF start > 0 THEN f[dest].bytes ELSE <<>>

\* createWriteStream(destPath, { flags: start > 0 ? 'a' : 'w' })
OpenStream(f, dest, start) ==
    IF start > 0 /\ ExistsSync(f, dest) THEN f
    ELSE [f EXCEPT ![dest] = File(<<>>)]

\* the remote server: "range" honours Range (206, or 416 past the end),
\* "full" always answers 200 with everything, "notfound" answers 404
ServerResponse(srv, start) ==
    CASE srv = "full" -> [status |-> 200, body |-> ServerPayload]
      [] srv = "notfound" -> [status |-> 404, body |-> <<>>]
      [] srv = "range" ->
            IF start = 0 THEN [status |-> 200, body |-> ServerPayload]
            ELSE IF start < Len(ServerPayload)
                 THEN [status |-> 206,
                       body |-> SubSeq(ServerPayload, start + 1, Len(ServerPayload))]
                 ELSE [status |-> 416, body |-> <<>>]

SERVERS == {"range", "full", "notfound"}

RangeIgnoredUnnoticed(status, start) == FALSE

\* response.statusCode === 200 && start > 0
RangeIgnored(status, start) == status = 200 /\ start > 0

ChecksumNeverFails(expected, digest) == FALSE

\* expectedHash && digest !== expectedHash
ChecksumFails(expected, digest) == expected.given /\ digest # expected.hash

\* what _streamToFile does once the stream has finished: the digest check
\* of the call that streamed and, for a restart, that of the call that
\* awaits it
StreamOutcome(d) ==
    IF ChecksumFails(d.expected, Sha256(d.hash))
    THEN [ok |-> FALSE, hash |-> Sha256(d.hash)]
    ELSE IF d.inner
         THEN [ok |-> ~ChecksumFails(d.expected, Sha256(d.outerHash)),
               hash |-> Sha256(d.outerHash)]
         ELSE [ok |-> TRUE, hash |-> Sha256(d.hash)]

Cur == Mk(samples, urls, files)

Install(st) ==
    /\ samples' = st.samples
    /\ urls' = st.urls
    /\ files' = st.files

IsIdle == dl.pc = "idle"

\* the manifest object, as _saveManifest serialises it
Manifest(s, u, k) == [samples |-> s, urls |-> u, packs |-> k]

\* a field the parsed manifest object does not have (undefined)
Missing == <<>>

\* the entries of a that b has no entry for
EntriesLeftOut(a, b) == SelectSeq(a, LAMBDA e : ~HasEntry(b, e.path))

WriteManifestMerging(current, m, called, fails) ==
    IF called /\ ~fails
    THEN IF "samples" \in DOMAIN current
         THEN [m EXCEPT !.samples = m.samples \o EntriesLeftOut(current.samples, m.samples)]
         ELSE m
    ELSE current

\* fs.writeFile(manifestPath, JSON.stringify(this.manifest)): the file
\* becomes the manifest of the writer, whatever it held
WriteManifest(current, m, called, fails) ==
    IF called /\ ~fails THEN m ELSE current

\* a process that has not started
NoPeer == [up |-> FALSE, samples |-> <<>>, urls |-> Missing, packs |-> Missing]

\* SampleCache._saveManifest, when the operation called it: the manifest
\* file takes the manifest in memory, and a failure of the write is caught
\* and logged, the caller going on with the file as it was
saveManifest(called, fails) ==
    disk' = WriteManifest(disk, Manifest(samples', urls', packs'), called, fails)

\* an operation is called: no download is running, and the run has room
Call ==
    /\ IsIdle
    /\ ops < MaxOps
    /\ ops' = ops + 1

AddSample(p, data, wf) ==
    /\ Call
    /\ \E now \in Nows :
        /\ Install(addSample(Cur, p, data, now))
        /\ clock' = now
        /\ last' = [NoLast EXCEPT !.op = "addSample", !.path = p, !.data = data,
                       !.wfail = wf,
                       !.had = HasEntry(samples, p),
                       !.over = OverLimit(Upsert(Cur, p, data, now).samples),
                       !.pre = IF OverLimit(Upsert(Cur, p, data, now).samples)
                               THEN Upsert(Cur, p, data, now).samples ELSE <<>>]
        /\ UNCHANGED <<packs, dl, temps, peer, calls, orch>>
    /\ saveManifest(TRUE, wf)

RemoveSample(p, wf) ==
    /\ Call
    /\ Install(removeSample(Cur, p))
    /\ last' = [NoLast EXCEPT !.op = "removeSample", !.path = p,
                   !.wfail = (wf /\ ExistsSync(files, p)),
                   !.had = HasEntry(samples, p),
                   !.hadUrl = \E u \in URLS : urls[u] = p,
                   !.afterAdd = (last.op = "addSample" /\ last.path = p)]
    /\ UNCHANGED <<packs, clock, dl, temps, peer, calls, orch>>
    /\ saveManifest(ExistsSync(files, p), wf)

\* SampleCache.updateAccessTime
UpdateAccessTime(p, wf) ==
    /\ Call
    /\ \E now \in Nows :
        /\ samples' = updateAccessTime(samples, p, now)
        /\ clock' = IF HasEntry(samples, p) THEN now ELSE clock
        /\ last' = [NoLast EXCEPT !.op = "updateAccessTime", !.path = p,
                       !.wfail = (wf /\ HasEntry(samples, p))]
        /\ UNCHANGED <<urls, packs, files, dl, temps, peer, calls, orch>>
    /\ saveManifest(HasEntry(samples, p), wf)

\* the for loop of clear over Object.keys(this.manifest.samples)
RECURSIVE ClearLoop(_, _)
ClearLoop(st, keys) ==
    IF keys = <<>> THEN st
    ELSE ClearLoop(removeSample(st, Head(keys).path), Tail(keys))

ClearAlsoEmptiesPacks(wf) ==
    /\ Call
    /\ Install(ClearLoop(Cur, samples))
    /\ packs' = [u \in URLS |-> NoPack]
    /\ last' = [NoLast EXCEPT !.op = "clear", !.had = (samples # <<>>)]
    /\ UNCHANGED <<clock, dl, temps, peer, calls, orch>>
    /\ saveManifest(TRUE, wf)

\* SampleCache.clear
Clear(wf) ==
    /\ Call
    /\ Install(ClearLoop(Cur, samples))
    /\ last' = [NoLast EXCEPT !.op = "clear", !.had = (samples # <<>>),
                   !.wfail = (wf /\ \E i \in 1..Len(samples) :
                                       ExistsSync(files, samples[i].path))]
    /\ UNCHANGED <<packs, clock, dl, temps, peer, calls, orch>>
    /\ saveManifest(\E i \in 1..Len(samples) : ExistsSync(files, samples[i].path), wf)

\* SampleCache.setByUrl
SetByUrl(url, data, wf) ==
    /\ Call
    /\ \E now \in Nows :
        LET st == addSample(Cur, RemotePath(url), data, now) IN
        /\ samples' = st.samples
        /\ files' = st.files
        /\ urls' = [st.urls EXCEPT ![url] = RemotePath(url)]
        /\ clock' = now
        /\ last' = [NoLast EXCEPT !.op = "setByUrl", !.path = RemotePath(url),
                       !.prevUrl = IF last.op = "setByUrl" THEN last.url ELSE NoPath,
                       !.wfail = wf,
                       !.url = url, !.data = data]
        /\ UNCHANGED <<packs, dl, temps, peer, calls, orch>>
    /\ saveManifest(TRUE, wf)

\* SampleDownloader.downloadPack up to the request of _streamToFile
DownloadPack(url, expected, srv) ==
    /\ Call
    /\ LET dest == PackPath(url)
           start == StatStart(files, dest, TRUE) IN
       dl' = [Idle EXCEPT !.pc = "request", !.url = url, !.expected = expected,
                 !.srv = srv, !.start = start,
                 !.hash = SeedHash(files, dest, start), !.initial = files[dest],
                 !.prevPath = urls[url], !.prevPack = packs[url]]
    /\ last' = NoLast
    /\ UNCHANGED <<samples, urls, packs, files, clock, disk, temps, peer, calls, orch>>

\* _streamToFile: open the write stream and send the GET
Request ==
    /\ dl.pc = "request"
    /\ files' = OpenStream(files, PackPath(dl.url), dl.start)
    /\ dl' = [dl EXCEPT !.pc = "response",
                 !.status = ServerResponse(dl.srv, dl.start).status,
                 !.body = ServerResponse(dl.srv, dl.start).body]
    /\ UNCHANGED <<samples, urls, packs, clock, last, ops, disk, temps, peer, calls, orch>>

DownloadFailed(err) ==
    [NoLast EXCEPT !.op = "downloadPack", !.url = dl.url, !.path = PackPath(dl.url),
        !.ok = FALSE, !.err = err, !.restarted = dl.inner, !.initial = dl.initial,
        !.expected = dl.expected, !.srv = dl.srv,
        !.hadUrl = dl.prevPack.present, !.prevPath = dl.prevPath,
        !.prevPack = dl.prevPack, !.extractor = dl.extractor]

\* _streamToFile: the response callback, restart from zero on a 200 answer
\* to a Range request
Restart ==
    /\ dl.pc = "response"
    /\ RangeIgnored(dl.status, dl.start)
    /\ files' = [files EXCEPT ![PackPath(dl.url)] = File(<<>>)]
    /\ dl' = [dl EXCEPT !.pc = "request", !.inner = TRUE, !.outerHash = dl.hash,
                 !.start = StatStart(files', PackPath(dl.url), FALSE),
                 !.hash = SeedHash(files', PackPath(dl.url),
                                   StatStart(files', PackPath(dl.url), FALSE)),
                 !.status = 0, !.body = <<>>]
    /\ UNCHANGED <<samples, urls, packs, clock, last, ops, disk, temps, peer, calls, orch>>

\* _streamToFile: the response callback, any status other than 200 or 206
RejectStatus ==
    /\ dl.pc = "response"
    /\ ~RangeIgnored(dl.status, dl.start)
    /\ dl.status \notin {200, 206}
    /\ dl' = Idle
    /\ last' = DownloadFailed("http")
    /\ UNCHANGED <<samples, urls, packs, files, clock, ops, disk, temps, peer, calls, orch>>

\* _streamToFile: the response callback, pipe the body to the file
StartPipe ==
    /\ dl.pc = "response"
    /\ ~RangeIgnored(dl.status, dl.start)
    /\ dl.status \in {200, 206}
    /\ dl' = [dl EXCEPT !.pc = "stream", !.written = 0]
    /\ UNCHANGED <<samples, urls, packs, files, clock, last, ops, disk, temps, peer, calls, orch>>

\* one chunk of the body: hash.update(chunk) and the piped write
StreamChunk ==
    /\ dl.pc = "stream"
    /\ dl.body # <<>>
    /\ files' = [files EXCEPT ![PackPath(dl.url)] =
                    File(Append(files[PackPath(dl.url)].bytes, Head(dl.body)))]
    /\ dl' = [dl EXCEPT !.hash = Append(dl.hash, Head(dl.body)),
                 !.body = Tail(dl.body), !.written = dl.written + 1]
    /\ UNCHANGED <<samples, urls, packs, clock, last, ops, disk, temps, peer, calls, orch>>

\* 'finish': the digest check fails, the destination is unlinked
FinishMismatch ==
    /\ dl.pc = "stream"
    /\ dl.body = <<>>
    /\ ~StreamOutcome(dl).ok
    /\ files' = [files EXCEPT ![PackPath(dl.url)] = NoFile]
    /\ dl' = Idle
    /\ last' = [DownloadFailed("checksum") EXCEPT !.hash = StreamOutcome(dl).hash]
    /\ UNCHANGED <<samples, urls, packs, clock, ops, disk, temps, peer, calls, orch>>

\* 'finish': _streamToFile returns its digest and downloadPack records the
\* pack; it is done unless the file has the name of an archive (the option
\* extract is left at its default)
FinishRecord(wf) ==
    /\ dl.pc = "stream"
    /\ dl.body = <<>>
    /\ StreamOutcome(dl).ok
    /\ \E now \in Nows :
        /\ urls' = [urls EXCEPT ![dl.url] = PackPath(dl.url)]
        /\ packs' = [packs EXCEPT ![dl.url] =
                        [present |-> TRUE, path |-> PackPath(dl.url),
                         hash |-> StreamOutcome(dl).hash, downloadedAt |-> now,
                         extracted |-> FALSE]]
        /\ clock' = now
    /\ IF isArchive(Chars(Basename(dl.url)))
       THEN /\ dl' = [dl EXCEPT !.pc = "extract"]
            /\ last' = last
       ELSE /\ dl' = Idle
            /\ last' = [DownloadFailed("") EXCEPT !.ok = TRUE, !.wfail = wf,
                           !.hash = StreamOutcome(dl).hash]
    /\ UNCHANGED <<samples, files, ops, temps, peer, calls, orch>>
    /\ saveManifest(TRUE, wf)

\* _extractArchive: no branch for the name, Unsupported archive format
ExtractUnsupported ==
    /\ dl.pc = "extract"
    /\ extractArchive(Chars(Basename(dl.url))) = "none"
    /\ dl' = Idle
    /\ last' = [DownloadFailed("unsupported") EXCEPT !.extractor = "none"]
    /\ UNCHANGED <<samples, urls, packs, files, clock, ops, disk, temps, peer, calls, orch>>

\* _extractArchive: unzip or tar runs and exits with an error
ExtractFailed ==
    /\ dl.pc = "extract"
    /\ extractArchive(Chars(Basename(dl.url))) # "none"
    /\ dl' = Idle
    /\ last' = [DownloadFailed("extract") EXCEPT
                   !.extractor = extractArchive(Chars(Basename(dl.url)))]
    /\ UNCHANGED <<samples, urls, packs, files, clock, ops, disk, temps, peer, calls, orch>>

\* _extractArchive: unzip or tar runs and succeeds
Extract ==
    /\ dl.pc = "extract"
    /\ extractArchive(Chars(Basename(dl.url))) # "none"
    /\ dl' = [dl EXCEPT !.pc = "hash",
                 !.extractor = extractArchive(Chars(Basename(dl.url)))]
    /\ UNCHANGED <<samples, urls, packs, files, clock, last, ops, disk, temps, peer, calls, orch>>

\* _hashExtractedFiles: readdir or readFile fails
HashExtractedFailed ==
    /\ dl.pc = "hash"
    /\ dl' = Idle
    /\ last' = DownloadFailed("hashing")
    /\ UNCHANGED <<samples, urls, packs, files, clock, ops, disk, temps, peer, calls, orch>>

\* downloadPack records extractedTo and files and is done
ExtractRecord(wf) ==
    /\ dl.pc = "hash"
    /\ packs' = [packs EXCEPT ![dl.url].extracted = TRUE]
    /\ dl' = Idle
    /\ last' = [DownloadFailed("") EXCEPT !.ok = TRUE, !.wfail = wf,
                   !.hash = packs[dl.url].hash]
    /\ UNCHANGED <<samples, urls, files, clock, ops, temps, peer, calls, orch>>
    /\ saveManifest(TRUE, wf)

\* manifest.json does not exist; manifest.json is not JSON
NoManifestFile == [exists |-> FALSE]
Unparsable == [exists |-> TRUE, json |-> FALSE]

\* SampleCache._createEmptyManifest
EmptyManifest == Manifest(<<>>, [u \in URLS |-> NoPath], [u \in URLS |-> NoPack])

\* JSON.parse of the manifest file: the object has the maps the file has
Parse(file) ==
    [samples |-> file.samples,
     urls |-> IF "urls" \in DOMAIN file THEN file.urls ELSE Missing,
     packs |-> IF "packs" \in DOMAIN file THEN file.packs ELSE Missing]

\* SampleCache._loadManifest: the parsed file as it is, the empty manifest
\* for a file that does not parse, the empty manifest, saved, for no file
loadManifest(fails) ==
    LET m == IF disk = NoManifestFile \/ disk = Unparsable
             THEN EmptyManifest
             ELSE Parse(disk)
    IN  /\ samples' = m.samples
        /\ urls' = m.urls
        /\ packs' = m.packs
        /\ disk' = IF disk = NoManifestFile /\ ~fails THEN EmptyManifest ELSE disk

\* the process is killed while the download runs: the bytes written so far
\* stay on disk and the next process loads the manifest as it was saved
Kill ==
    /\ dl.pc \in {"response", "stream", "pending", "extract", "hash"}
    /\ dl' = Idle
    /\ last' = [NoLast EXCEPT !.op = "killed"]
    /\ loadManifest(FALSE)
    /\ UNCHANGED <<files, clock, ops, temps, peer, calls, orch>>

\* options.expectedHash: none, the digest of the payload, or another one
EXPECTED == {NoExpected, Expect(Sha256(ServerPayload)), Expect(Sha256(<<0>>))}

Init ==
    /\ samples = <<>>
    /\ urls = [u \in URLS |-> NoPath]
    /\ packs = [u \in URLS |-> NoPack]
    /\ files = [p \in FILES |-> NoFile]
    /\ clock = 0
    /\ dl = Idle
    /\ ops = 0
    /\ last = NoLast
    /\ disk = Manifest(samples, urls, packs)
    /\ temps = 0
    /\ peer = NoPeer
    /\ calls = [i \in CALLERS |-> NoCall]
    /\ orch = NoOrch

\* the URL the operations of Spec are called with
CALLED == {"http://h/x"}

Next ==
    \/ \E p \in PATHS, data \in DATA : AddSample(p, data, FALSE)
    \/ \E p \in PATHS : RemoveSample(p, FALSE)
    \/ \E p \in PATHS : UpdateAccessTime(p, FALSE)
    \/ Clear(FALSE)
    \/ \E url \in CALLED, data \in DATA : SetByUrl(url, data, FALSE)
    \/ \E url \in CALLED, e \in EXPECTED, srv \in SERVERS : DownloadPack(url, e, srv)
    \/ Request
    \/ Restart
    \/ RejectStatus
    \/ StartPipe
    \/ StreamChunk
    \/ FinishMismatch
    \/ FinishRecord(FALSE)
    \/ Kill

Spec == Init /\ [][Next]_vars

\* downloadPack of the archive URLs, with extraction
NextArchive ==
    \/ \E url \in ARCHIVES, e \in EXPECTED, srv \in SERVERS : DownloadPack(url, e, srv)
    \/ Request
    \/ Restart
    \/ RejectStatus
    \/ StartPipe
    \/ StreamChunk
    \/ FinishMismatch
    \/ FinishRecord(FALSE)
    \/ ExtractUnsupported
    \/ ExtractFailed
    \/ Extract
    \/ HashExtractedFailed
    \/ ExtractRecord(FALSE)
    \/ Kill

SpecArchive == Init /\ [][NextArchive]_vars

\* ------------------------------------------ failures of the environment
\* 'error' on the request, before any response: the destination is
\* unlinked and the promise rejected
RequestError ==
    /\ dl.pc = "request"
    /\ files' = [files EXCEPT ![PackPath(dl.url)] = NoFile]
    /\ dl' = Idle
    /\ last' = DownloadFailed("request")
    /\ UNCHANGED <<samples, urls, packs, clock, ops, disk, temps, peer, calls, orch>>

\* 'error' on the file stream while the body is piped: the destination is
\* unlinked and the promise rejected
WriteError ==
    /\ dl.pc = "stream"
    /\ files' = [files EXCEPT ![PackPath(dl.url)] = NoFile]
    /\ dl' = Idle
    /\ last' = DownloadFailed("write")
    /\ UNCHANGED <<samples, urls, packs, clock, ops, disk, temps, peer, calls, orch>>

\* the connection drops while the body is piped, on a runtime that only
\* emits 'aborted' on the response: no listener is registered for it, the
\* file stream is never ended and neither resolve nor reject is ever called
ResponseAborted ==
    /\ dl.pc = "stream"
    /\ dl.body # <<>>
    /\ dl' = [dl EXCEPT !.pc = "pending"]
    /\ UNCHANGED <<samples, urls, packs, files, clock, last, ops, disk, temps, peer, calls, orch>>

\* the same on a runtime that emits 'error' on the response: the response
\* has no 'error' listener, the exception is uncaught and ends the process
ResponseErrorUncaught ==
    /\ dl.pc = "stream"
    /\ dl.body # <<>>
    /\ dl' = Idle
    /\ last' = [NoLast EXCEPT !.op = "crashed", !.url = dl.url,
                   !.path = PackPath(dl.url)]
    /\ loadManifest(FALSE)
    /\ UNCHANGED <<files, clock, ops, temps, peer, calls, orch>>

\* what can go wrong in a downloadSample call
FAULTS == {"none", "request", "write", "add"}

\* the way downloadSample ends: "" when it returns the cached path
downloadSampleError(expected, srv, fault) ==
    IF fault = "request" THEN "request"
    ELSE IF ServerResponse(srv, 0).status # 200 THEN "http"
    ELSE IF fault = "write" THEN "write"
    ELSE IF ChecksumFails(expected, Sha256(ServerResponse(srv, 0).body))
         THEN "checksum"
    ELSE IF fault = "add" THEN "add"
    ELSE ""

\* SampleDownloader.downloadSample: the temp file is unlinked by the two
\* 'error' handlers, on a checksum mismatch and after the sample is added
DownloadSample(url, dest, expected, srv, fault, wf) ==
    /\ Call
    /\ \E now \in Nows :
        LET err == downloadSampleError(expected, srv, fault)
            st == IF err = ""
                  THEN addSample(Cur, dest, ServerResponse(srv, 0).body, now)
                  ELSE Cur
        IN  /\ samples' = st.samples
            /\ files' = st.files
            /\ urls' = IF err = "" THEN [st.urls EXCEPT ![url] = dest] ELSE urls
            /\ clock' = IF err = "" THEN now ELSE clock
            /\ temps' = IF err \in {"http", "add"} THEN temps + 1 ELSE temps
            /\ last' = [NoLast EXCEPT !.op = "downloadSample", !.url = url,
                           !.path = dest, !.ok = (err = ""), !.err = err,
                           !.wfail = (wf /\ err = "")]
            /\ UNCHANGED <<packs, dl, peer, calls, orch>>
    /\ saveManifest(downloadSampleError(expected, srv, fault) = "", wf)

\* the destination downloadSample is called with
DESTINATIONS == {"a.wav"}

\* the servers a request without Range tells apart
ANSWERS == {"full", "notfound"}

\* the operations of Next with a manifest file whose write may fail, the
\* download of a single sample, and the failures of a download
NextEnv ==
    \/ \E p \in PATHS, data \in DATA, wf \in BOOLEAN : AddSample(p, data, wf)
    \/ \E p \in PATHS, wf \in BOOLEAN : RemoveSample(p, wf)
    \/ \E p \in PATHS, wf \in BOOLEAN : UpdateAccessTime(p, wf)
    \/ \E wf \in BOOLEAN : Clear(wf)
    \/ \E url \in CALLED, data \in DATA, wf \in BOOLEAN : SetByUrl(url, data, wf)
    \/ \E url \in CALLED, e \in EXPECTED, srv \in SERVERS : DownloadPack(url, e, srv)
    \/ \E url \in CALLED, dest \in DESTINATIONS, e \in EXPECTED, srv \in ANSWERS,
          fault \in FAULTS, wf \in BOOLEAN : DownloadSample(url, dest, e, srv, fault, wf)
    \/ Request
    \/ Restart
    \/ RejectStatus
    \/ StartPipe
    \/ StreamChunk
    \/ FinishMismatch
    \/ \E wf \in BOOLEAN : FinishRecord(wf)
    \/ Kill
    \/ RequestError
    \/ WriteError
    \/ ResponseAborted
    \/ ResponseErrorUncaught

SpecEnv == Init /\ [][NextEnv]_vars

\* ------------------------------------------------------------ queries
\* SampleCache.verifySample, called
VerifySample(p) ==
    /\ Call
    /\ last' = [NoLast EXCEPT !.op = "verifySample", !.path = p,
                   !.result = verifySample(samples, files, p)]
    /\ UNCHANGED <<samples, urls, packs, files, clock, dl, disk, temps, peer, calls, orch>>

\* SampleCache.getCachedPath, called: result is TRUE when the path is
\* returned and FALSE when null is
GetCachedPath(p) ==
    /\ Call
    /\ last' = [NoLast EXCEPT !.op = "getCachedPath", !.path = p,
                   !.result = (getCachedPath(files, p) # NoPath)]
    /\ UNCHANGED <<samples, urls, packs, files, clock, dl, disk, temps, peer, calls, orch>>

\* SampleCache.verifyAll, called
VerifyAll ==
    /\ Call
    /\ last' = [NoLast EXCEPT !.op = "verifyAll",
                   !.report = verifyAll(samples, files)]
    /\ UNCHANGED <<samples, urls, packs, files, clock, dl, disk, temps, peer, calls, orch>>

\* SampleCache.getByUrl, called: a hit updates the access time of the path
GetByUrl(url, wf) ==
    /\ Call
    /\ \E now \in Nows :
        LET hit == getByUrl(urls, files, url) # NoFile
            touched == hit /\ HasEntry(samples, urls[url])
        IN  /\ samples' = IF hit THEN updateAccessTime(samples, urls[url], now)
                          ELSE samples
            /\ clock' = IF touched THEN now ELSE clock
            /\ last' = [NoLast EXCEPT !.op = "getByUrl", !.url = url,
                           !.path = urls[url],
                           !.afterSet = (last.op = "setByUrl" /\ last.url = url),
                           !.data = IF last.op = "setByUrl" /\ last.url = url
                                    THEN last.data ELSE <<>>,
                           !.wfail = (wf /\ touched),
                           !.got = getByUrl(urls, files, url)]
            /\ UNCHANGED <<urls, packs, files, dl, temps, peer, calls, orch>>
    /\ saveManifest(getByUrl(urls, files, url) # NoFile
                        /\ HasEntry(samples, urls[url]), wf)

\* the operations of the cache with its queries, setByUrl and getByUrl of
\* every URL, and downloadPack
NextQuery ==
    \/ \E p \in PATHS, data \in DATA : AddSample(p, data, FALSE)
    \/ \E p \in PATHS : RemoveSample(p, FALSE)
    \/ \E p \in PATHS : UpdateAccessTime(p, FALSE)
    \/ Clear(FALSE)
    \/ \E url \in SOURCES, data \in DATA : SetByUrl(url, data, FALSE)
    \/ \E url \in SOURCES : GetByUrl(url, FALSE)
    \/ \E p \in PATHS : VerifySample(p)
    \/ \E p \in PATHS : GetCachedPath(p)
    \/ VerifyAll
    \/ \E url \in CALLED, e \in EXPECTED, srv \in SERVERS : DownloadPack(url, e, srv)
    \/ Request
    \/ Restart
    \/ RejectStatus
    \/ StartPipe
    \/ StreamChunk
    \/ FinishMismatch
    \/ FinishRecord(FALSE)
    \/ Kill

SpecQuery == Init /\ [][NextQuery]_vars

\* ------------------------------------------------------ a second process
\* a second process on the same cache directory constructs its SampleCache
\* and initializes it: it parses the manifest file as it is now
PeerInitialize ==
    /\ Call
    /\ ~peer.up
    /\ peer' = [up |-> TRUE, samples |-> Parse(disk).samples,
                urls |-> Parse(disk).urls, packs |-> Parse(disk).packs]
    /\ last' = [NoLast EXCEPT !.op = "peer.initialize"]
    /\ UNCHANGED <<samples, urls, packs, files, clock, dl, disk, temps, calls, orch>>

\* addSample in the second process: its own manifest, the shared files and
\* the shared manifest file
PeerAddSample(p, data, wf) ==
    /\ Call
    /\ peer.up
    /\ \E now \in Nows :
        LET st == addSample(Mk(peer.samples, peer.urls, files), p, data, now) IN
        /\ peer' = [peer EXCEPT !.samples = st.samples, !.urls = st.urls]
        /\ files' = st.files
        /\ clock' = now
        /\ last' = [NoLast EXCEPT !.op = "peer.addSample", !.path = p,
                       !.data = data, !.wfail = wf]
        /\ disk' = WriteManifest(disk, Manifest(st.samples, st.urls, peer.packs),
                                 TRUE, wf)
        /\ UNCHANGED <<samples, urls, packs, dl, temps, calls, orch>>

\* the operations of Next and those of a second process
NextPeers ==
    \/ Next
    \/ PeerInitialize
    \/ \E p \in PATHS, data \in DATA : PeerAddSample(p, data, FALSE)

SpecPeers == Init /\ [][NextPeers]_vars

\* ------------------------------------------------- start of a process
\* the manifest has its three maps
HasMaps == DOMAIN urls = URLS /\ DOMAIN packs = URLS

\* new SampleCache(config, logger) and initialize(), in a new process or
\* again in the running one
Initialize(wf) ==
    /\ dl.pc \in {"constructed", "idle"}
    /\ ops < MaxOps
    /\ ops' = ops + 1
    /\ loadManifest(wf)
    /\ dl' = Idle
    /\ last' = [NoLast EXCEPT !.op = "initialize"]
    /\ UNCHANGED <<files, clock, temps, peer, calls, orch>>

\* a samples entry as the earlier version of addSample wrote it (no hash)
OldEntry == [path |-> "a.wav", size |-> 1, cachedAt |-> 0, lastAccessed |-> 0]

\* the manifest file a process may find: none, one that does not parse, one
\* written by the earlier version (samples only), one written by this version
MANIFEST_FILES ==
    {NoManifestFile, Unparsable, [samples |-> <<>>], [samples |-> <<OldEntry>>],
     EmptyManifest}

\* the constructor has run (this.manifest = null), initialize() has not
InitLoad ==
    /\ disk \in MANIFEST_FILES
    /\ samples = <<>>
    /\ urls = Missing
    /\ packs = Missing
    /\ files = [p \in FILES |->
                   IF disk = [samples |-> <<OldEntry>>] /\ p = OldEntry.path
                   THEN File(<<1>>) ELSE NoFile]
    /\ clock = 0
    /\ dl = [Idle EXCEPT !.pc = "constructed"]
    /\ ops = 0
    /\ last = NoLast
    /\ temps = 0
    /\ peer = NoPeer
    /\ calls = [i \in CALLERS |-> NoCall]
    /\ orch = NoOrch

\* the operations are called on a manifest that has its three maps
NextLoad ==
    \/ \E wf \in BOOLEAN : Initialize(wf)
    \/ (HasMaps /\ Next)

SpecLoad == InitLoad /\ [][NextLoad]_vars

\* ------------------------------------------------- concurrent addSample
\* the calls of addSample that have not returned
Active(c) == c.pc \notin {"idle", "done", "failed"}

\* the paths concurrent calls are made with
RACED == {"a.wav", "remote/x"}

\* SampleCache.addSample is called: it runs up to fs.writeFile
AddSampleBegin(i, p, data) ==
    /\ Call
    /\ ~Active(calls[i])
    /\ calls' = [j \in CALLERS |->
                    IF j = i
                    THEN [NoCall EXCEPT !.pc = "write", !.path = p, !.data = data,
                             !.raced = \E k \in CALLERS : Active(calls[k])]
                    ELSE IF Active(calls[j]) THEN [calls[j] EXCEPT !.raced = TRUE]
                    ELSE calls[j]]
    /\ UNCHANGED <<samples, urls, packs, files, clock, dl, last, disk, temps, peer, orch>>

\* await fs.writeFile(cachedPath, data)
WriteFile(i) ==
    /\ calls[i].pc = "write"
    /\ files' = [files EXCEPT ![calls[i].path] = File(calls[i].data)]
    /\ calls' = [calls EXCEPT ![i].pc = "stat"]
    /\ UNCHANGED <<samples, urls, packs, clock, dl, ops, last, disk, temps, peer, orch>>

\* await fs.stat(cachedPath): the size of the file as it is now, or ENOENT
Stat(i) ==
    /\ calls[i].pc = "stat"
    /\ calls' = IF ExistsSync(files, calls[i].path)
                THEN [calls EXCEPT ![i].pc = "put",
                                   ![i].size = Len(files[calls[i].path].bytes)]
                ELSE [calls EXCEPT ![i].pc = "failed", ![i].err = "stat"]
    /\ UNCHANGED <<samples, urls, packs, files, clock, dl, ops, last, disk, temps, peer, orch>>

\* this.manifest.samples[samplePath] = {size: stats.size, hash: hash of data,
\* ...}; await this._saveManifest()
PutSample(i) ==
    /\ calls[i].pc = "put"
    /\ \E now \in Nows :
        /\ samples' = PutEntry(samples,
                           [path |-> calls[i].path, size |-> calls[i].size,
                            hash |-> Sha256(calls[i].data),
                            cachedAt |-> now, lastAccessed |-> now])
        /\ clock' = now
    /\ calls' = [calls EXCEPT ![i].pc = "check"]
    /\ UNCHANGED <<urls, packs, files, dl, ops, last, temps, peer, orch>>
    /\ saveManifest(TRUE, FALSE)

\* _checkCacheSize, and the sorted snapshot and the sum of _cleanupCache
CheckCacheSize(i) ==
    /\ calls[i].pc = "check"
    /\ calls' = IF OverLimit(samples)
                THEN [calls EXCEPT ![i].pc = "evict",
                                   ![i].queue = SortByLastAccessed(samples),
                                   ![i].currentSize = SumSizes(samples)]
                ELSE [calls EXCEPT ![i].pc = "done"]
    /\ UNCHANGED <<samples, urls, packs, files, clock, dl, ops, last, disk, temps, peer, orch>>

\* the for loop of _cleanupCache up to the existsSync of removeSample: the
\* loop ends, or skips a sample with no file, or goes on to unlink it
Evict(i) ==
    /\ calls[i].pc = "evict"
    /\ calls' =
         IF calls[i].queue = <<>> \/ UnderTarget(calls[i].currentSize)
         THEN [calls EXCEPT ![i].pc = "done"]
         ELSE IF ExistsSync(files, Head(calls[i].queue).path)
         THEN [calls EXCEPT ![i].pc = "unlink"]
         ELSE [calls EXCEPT ![i].queue = Tail(calls[i].queue),
                            ![i].currentSize =
                                calls[i].currentSize - Head(calls[i].queue).size]
    /\ UNCHANGED <<samples, urls, packs, files, clock, dl, ops, last, disk, temps, peer, orch>>

\* removeSample from await fs.unlink(cachedPath) on: ENOENT when the file
\* has gone since existsSync, else the entry and its URLs are deleted and
\* the manifest is saved
Unlink(i) ==
    /\ calls[i].pc = "unlink"
    /\ IF ExistsSync(files, Head(calls[i].queue).path)
       THEN /\ Install(removeSample(Cur, Head(calls[i].queue).path))
            /\ calls' = [calls EXCEPT ![i].pc = "evict",
                            ![i].queue = Tail(calls[i].queue),
                            ![i].currentSize =
                                calls[i].currentSize - Head(calls[i].queue).size]
       ELSE /\ calls' = [calls EXCEPT ![i].pc = "failed", ![i].err = "unlink"]
            /\ UNCHANGED <<samples, urls, files>>
    /\ UNCHANGED <<packs, clock, dl, ops, last, temps, peer, orch>>
    /\ saveManifest(ExistsSync(files, Head(calls[i].queue).path), FALSE)

\* calls of addSample that overlap on one cache instance
NextAsync ==
    \/ \E i \in CALLERS, p \in RACED, data \in DATA : AddSampleBegin(i, p, data)
    \/ \E i \in CALLERS : WriteFile(i)
    \/ \E i \in CALLERS : Stat(i)
    \/ \E i \in CALLERS : PutSample(i)
    \/ \E i \in CALLERS : CheckCacheSize(i)
    \/ \E i \in CALLERS : Evict(i)
    \/ \E i \in CALLERS : Unlink(i)

SpecAsync == Init /\ [][NextAsync]_vars

\* ----------------------------------------------------------- orchestrator
\* the modes selectMode creates
MODES == {"web", "native", "osc"}

\* mode.initialize(options) throws: WebMode and OSCMode always do,
\* NativeMode when its backend cannot be set up
InitializeThrows(mode, fails) == mode \in {"web", "osc"} \/ fails

\* this.currentMode = await this.selectMode(modeType);
\* await this.currentMode.initialize(options)
SelectAndInitialize(mode, fails) ==
    [name |-> mode,
     state |-> IF InitializeThrows(mode, fails) THEN "failed" ELSE "initialized",
     isPlaying |-> FALSE]

\* Orchestrator.initialize: the orchestrator it leaves
initialize(o, mode, fails) ==
    IF o.isInitialized THEN o
    ELSE [isInitialized |-> ~InitializeThrows(mode, fails),
          currentMode |-> SelectAndInitialize(mode, fails)]

\* Orchestrator.initialize, called
OrchInitialize(mode, fails) ==
    /\ Call
    /\ orch' = initialize(orch, mode, fails)
    /\ last' = [NoLast EXCEPT !.op = "initialize", !.mode = mode,
                   !.ok = orch.isInitialized \/ ~InitializeThrows(mode, fails)]
    /\ UNCHANGED <<samples, urls, packs, files, clock, dl, disk, temps, peer, calls>>

\* Orchestrator.switchMode: the current mode is cleaned up and replaced
SwitchMode(mode, fails) ==
    /\ Call
    /\ orch' = [orch EXCEPT !.currentMode = SelectAndInitialize(mode, fails)]
    /\ last' = [NoLast EXCEPT !.op = "switchMode", !.mode = mode,
                   !.ok = ~InitializeThrows(mode, fails)]
    /\ UNCHANGED <<samples, urls, packs, files, clock, dl, disk, temps, peer, calls>>

\* currentMode.play(code) resolves: only NativeMode with its audio context
\* plays, when the pattern file can be read and evaluated
Plays(o, fails) ==
    /\ o.isInitialized
    /\ o.currentMode.name = "native"
    /\ o.currentMode.state = "initialized"
    /\ ~fails

\* Orchestrator.play: initializes first when not initialized
Play(mode, ifails, pfails) ==
    /\ Call
    /\ LET o == initialize(orch, mode, ifails) IN
        /\ orch' = IF Plays(o, pfails)
                   THEN [o EXCEPT !.currentMode.isPlaying = TRUE] ELSE o
        /\ last' = [NoLast EXCEPT !.op = "play", !.mode = o.currentMode.name,
                       !.ok = Plays(o, pfails)]
    /\ UNCHANGED <<samples, urls, packs, files, clock, dl, disk, temps, peer, calls>>

\* Orchestrator.startREPL: initializes first when not initialized, and then
\* throws REPL functionality coming in next phase
StartREPL(mode, fails) ==
    /\ Call
    /\ orch' = initialize(orch, mode, fails)
    /\ last' = [NoLast EXCEPT !.op = "startREPL",
                   !.mode = initialize(orch, mode, fails).currentMode.name,
                   !.ok = FALSE]
    /\ UNCHANGED <<samples, urls, packs, files, clock, dl, disk, temps, peer, calls>>

\* currentMode.stop() does something: NativeMode with its audio context
Stops(o) == o.currentMode.name = "native" /\ o.currentMode.state = "initialized"

\* Orchestrator.stop: returns when there is no mode, else rethrows what
\* currentMode.stop() throws
OrchStop(fails) ==
    /\ Call
    /\ orch' = IF Stops(orch) /\ ~fails
               THEN [orch EXCEPT !.currentMode.isPlaying = FALSE] ELSE orch
    /\ last' = [NoLast EXCEPT !.op = "stop", !.mode = orch.currentMode.name,
                   !.ok = ~(Stops(orch) /\ fails)]
    /\ UNCHANGED <<samples, urls, packs, files, clock, dl, disk, temps, peer, calls>>

\* Orchestrator.cleanup
OrchCleanup ==
    /\ Call
    /\ orch' = NoOrch
    /\ last' = [NoLast EXCEPT !.op = "cleanup", !.mode = orch.currentMode.name]
    /\ UNCHANGED <<samples, urls, packs, files, clock, dl, disk, temps, peer, calls>>

NextOrch ==
    \/ \E mode \in MODES, fails \in BOOLEAN : OrchInitialize(mode, fails)
    \/ \E mode \in MODES, fails \in BOOLEAN : SwitchMode(mode, fails)
    \/ \E mode \in MODES, ifails \in BOOLEAN, pfails \in BOOLEAN :
          Play(mode, ifails, pfails)
    \/ \E mode \in MODES, fails \in BOOLEAN : StartREPL(mode, fails)
    \/ \E fails \in BOOLEAN : OrchStop(fails)
    \/ OrchCleanup

SpecOrch == Init /\ [][NextOrch]_vars

\* ---------------------------------------------------------------- claims
IsPrefix(a, b) == Len(a) <= Len(b) /\ a = SubSeq(b, 1, Len(a))

CorrectHash == Expect(Sha256(ServerPayload))

WrongHash == Expect(Sha256(<<0>>))

\* C1: after every completed operation each URL of the urls map is mapped
\* to a path that is a key of the samples map.
C1_NoDanglingUrl ==
    IsIdle => \A u \in URLS : urls[u] # NoPath => HasEntry(samples, urls[u])

\* C2: a download that found a partial file and was answered 200 to its
\* Range request, with no expectedHash or with the correct one, succeeds
\* and leaves the full payload at the destination.
C2_RestartYieldsFullFile ==
    (last.op = "downloadPack" /\ last.restarted
        /\ last.expected \in {NoExpected, CorrectHash})
    => (last.ok /\ files[last.path] = File(ServerPayload))

\* C3: with a server that honours Range, the first K bytes of the payload
\* at the destination (0 <= K < length of the payload) and the correct
\* expectedHash, the download succeeds and the destination holds the
\* full payload.
C3_ResumeCorrect ==
    (last.op = "downloadPack" /\ last.srv = "range"
        /\ IsPrefix(last.initial.bytes, ServerPayload)
        /\ Len(last.initial.bytes) < Len(ServerPayload)
        /\ last.expected = CorrectHash)
    => (last.ok /\ files[last.path] = File(ServerPayload))

C3_Witness ==
    /\ last.op = "downloadPack"
    /\ last.srv = "range"
    /\ last.initial = File(SubSeq(ServerPayload, 1, Len(ServerPayload) - 1))
    /\ last.expected = CorrectHash
    /\ last.ok
    /\ files[last.path] = File(ServerPayload)

\* C4: the hash a successful download returns, and records in
\* packs[url].hash, is the SHA-256 of the destination file as it is on disk.
C4_HashCoversWholeFile ==
    (last.op = "downloadPack" /\ last.ok)
    => /\ last.hash = Sha256(files[last.path].bytes)
       /\ packs[last.url].hash = Sha256(files[last.path].bytes)

\* C5: while the body of a 200 response is being written the destination
\* holds the bytes of that response and nothing before them: the file was
\* empty when the first byte of the response was written.
C5_FullResponseNeverAppended ==
    (dl.pc = "stream" /\ dl.status = 200)
    => files[PackPath(dl.url)] = File(SubSeq(ServerPayload, 1, dl.written))

C5_Witness ==
    /\ dl.pc = "stream"
    /\ dl.status = 200
    /\ dl.inner
    /\ dl.initial.bytes # <<>>
    /\ dl.written > 0

\* C6: once addSample(p, P) has completed, verifySample(p) is true and the
\* file at p holds exactly P.
C6_AddThenVerify ==
    last.op = "addSample"
    => (verifySample(samples, files, last.path) /\ files[last.path] = File(last.data))

\* C7: when an addSample has brought the total of the recorded sizes above
\* the cap, the total is at most 0.8 * cap once that addSample has completed.
C7_EvictsToTarget ==
    (last.op = "addSample" /\ last.over) => 10 * SumSizes(samples) <= 8 * MaxSizeBytes

\* the entries of the snapshot an eviction removed, by their place in it
Evicted == {i \in 1..Len(last.pre) : ~HasEntry(samples, last.pre[i].path)}

\* i comes before j in ascending lastAccessed order, ties in manifest order
Older(i, j) ==
    \/ last.pre[i].lastAccessed < last.pre[j].lastAccessed
    \/ last.pre[i].lastAccessed = last.pre[j].lastAccessed /\ i < j

RECURSIVE SizeOf(_)
SizeOf(I) ==
    IF I = {} THEN 0
    ELSE LET i == CHOOSE x \in I : TRUE IN last.pre[i].size + SizeOf(I \ {i})

\* C8: an eviction removes exactly the shortest prefix, in ascending
\* lastAccessed order with ties in manifest order, that brings the total to
\* at most 0.8 * cap: nothing older than an evicted entry is kept, and
\* nothing is evicted once the threshold is met.
C8_EvictsOldestPrefix ==
    (last.op = "addSample" /\ last.over)
    => /\ \A i \in Evicted : \A j \in (1..Len(last.pre)) \ Evicted : Older(i, j)
       /\ \A i \in Evicted :
            10 * (SumSizes(last.pre) - SizeOf({k \in Evicted : Older(k, i)}))
                > 8 * MaxSizeBytes
       /\ 10 * (SumSizes(last.pre) - SizeOf(Evicted)) <= 8 * MaxSizeBytes
       /\ samples = SelectSeq(last.pre, LAMBDA e : HasEntry(samples, e.path))

\* C9: when the stream has finished and the SHA-256 of the destination
\* differs from the expectedHash that was supplied, the call fails with a
\* checksum mismatch, no file is left at the destination and neither
\* packs nor urls is written.
C9_ChecksumMismatch ==
    [][(/\ dl.pc = "stream" /\ dl.body = <<>>
        /\ dl.expected.given
        /\ Sha256(files[PackPath(dl.url)].bytes) # dl.expected.hash
        /\ dl'.pc = "idle"
        /\ last'.op = "downloadPack")
       => (/\ ~last'.ok
           /\ last'.err = "checksum"
           /\ ~ExistsSync(files', PackPath(dl.url))
           /\ packs' = packs
           /\ urls' = urls)]_vars

C9_Witness ==
    /\ last.op = "downloadPack"
    /\ last.expected = WrongHash
    /\ ~last.ok
    /\ last.err = "checksum"
    /\ ~ExistsSync(files, last.path)

\* C10: removeSample(p) of a path that has a manifest entry deletes the
\* entry and every urls entry that maps to p, whether or not the file of p
\* is on disk.
C10_RemoveDeletesEntry ==
    (last.op = "removeSample" /\ last.had)
    => (~HasEntry(samples, last.path) /\ \A u \in URLS : urls[u] # last.path)

\* C11: removeSample(p) right after addSample(p, P): isCached(p) is false,
\* getCachedPath(p) is null, samples has no entry for p and no urls entry
\* maps to p.
C11_RemoveAfterAdd ==
    (last.op = "removeSample" /\ last.afterAdd)
    => /\ ~isCached(files, last.path)
       /\ getCachedPath(files, last.path) = NoPath
       /\ ~HasEntry(samples, last.path)
       /\ \A u \in URLS : urls[u] # last.path

C11_Witness ==
    /\ last.op = "removeSample"
    /\ last.afterAdd
    /\ last.had
    /\ last.hadUrl
    /\ ~HasEntry(samples, last.path)

\* C12: removeSample(p) of a path with no manifest entry changes neither
\* the manifest nor any file, also when a file exists at p.
C12_RemoveUnknownIsNoOp ==
    [][(/\ ops' = ops + 1
        /\ last'.op = "removeSample"
        /\ ~HasEntry(samples, last'.path))
       => UNCHANGED <<samples, urls, packs, files>>]_vars

\* C13: once clear() has completed the samples map and the urls map are
\* both empty.
C13_ClearEmpties ==
    last.op = "clear" => (samples = <<>> /\ \A u \in URLS : urls[u] = NoPath)

\* C14: re-adding a path that has a manifest entry leaves the cachedAt of
\* that entry as it was.
C14_ReAddKeepsCachedAt ==
    [][(/\ ops' = ops + 1
        /\ last'.op = "addSample"
        /\ HasEntry(samples, last'.path)
        /\ HasEntry(samples', last'.path))
       => EntryOf(samples', last'.path).cachedAt
              = EntryOf(samples, last'.path).cachedAt]_vars

\* C15: after addSample(p, P) with p retained the manifest holds exactly
\* one entry for p, of size the length of P and of hash the SHA-256 of P,
\* also when p was there before with other contents.
C15_SingleEntryMatchesPayload ==
    (last.op = "addSample" /\ HasEntry(samples, last.path))
    => /\ Cardinality({i \in 1..Len(samples) : samples[i].path = last.path}) = 1
       /\ EntryOf(samples, last.path).size = Len(last.data)
       /\ EntryOf(samples, last.path).hash = Sha256(last.data)

C15_Witness ==
    /\ last.op = "addSample"
    /\ last.had
    /\ HasEntry(samples, last.path)
    /\ Len(samples) = 2
    /\ EntryOf(samples, last.path).hash = Sha256(last.data)

\* C16: when the server answers with a status other than 200 or 206,
\* downloadPack fails and no file, empty or partial, is left at the
\* destination.
C16_BadStatusLeavesNoFile ==
    (last.op = "downloadPack" /\ last.err = "http")
    => ~ExistsSync(files, last.path)

\* C17: when the request, the response stream or the file write fails
\* while streaming, the call is rejected with that error, never left
\* pending or ended by an uncaught exception, and the partial file is deleted.
C17_StreamFailureRejects ==
    /\ dl.pc # "pending"
    /\ last.op # "crashed"
    /\ (last.op = "downloadPack" /\ last.err \in {"request", "write"})
       => ~ExistsSync(files, last.path)

\* C18: a downloadSample call that has completed, returning or throwing,
\* leaves no temp download file it created.
C18_NoTempFileLeft ==
    [][(ops' = ops + 1 /\ last'.op = "downloadSample") => temps' = temps]_vars

\* C19: after a successful downloadPack(url) without extraction packs[url]
\* exists with the path packs/<basename>/<basename>, urls[url] is that path
\* and the file at that path holds the bytes the server serves.
C19_PackRecorded ==
    (last.op = "downloadPack" /\ last.ok)
    => /\ packs[last.url].present
       /\ packs[last.url].path = PackPath(last.url)
       /\ urls[last.url] = PackPath(last.url)
       /\ files[PackPath(last.url)] = File(ServerPayload)

\* the operations that change the manifest
MUTATING == {"addSample", "removeSample", "updateAccessTime", "clear",
             "setByUrl", "downloadSample", "downloadPack"}

\* C20: after every completed mutating operation the manifest file equals
\* the manifest in memory.
C20_DiskEqualsMemory ==
    (IsIdle /\ last.op \in MUTATING) => disk = Manifest(samples, urls, packs)

\* C21: when the write of the manifest file fails during a mutating
\* operation, the operation fails to its caller.
C21_WriteFailureSurfaced ==
    (IsIdle /\ last.op \in MUTATING /\ last.wfail) => ~last.ok

\* C22: after initialize(), whatever the manifest file was (absent,
\* unparsable, written by an earlier version), initialize() has not failed
\* and the manifest in memory has its samples, urls and packs maps.
C22_InitializeShapesManifest ==
    last.op = "initialize" => (last.ok /\ HasMaps)

\* C23: an addSample after which the total of the recorded sizes is at
\* most the cap, also exactly the cap, removes no entry and no file.
C23_NoEvictionUpToCap ==
    [][(/\ ops' = ops + 1
        /\ last'.op = "addSample"
        /\ SumSizes(Upsert(Cur, last'.path, last'.data, clock).samples)
               <= MaxSizeBytes)
       => /\ Keys(samples) \subseteq Keys(samples')
          /\ HasEntry(samples', last'.path)
          /\ \A p \in PATHS : ExistsSync(files, p) => ExistsSync(files', p)]_vars

C23_Witness ==
    /\ last.op = "addSample"
    /\ Len(samples) = 2
    /\ SumSizes(samples) = MaxSizeBytes
    /\ \A i \in 1..Len(samples) : ExistsSync(files, samples[i].path)

\* C26: updateAccessTime(p) of a path with an entry changes only the
\* lastAccessed of that entry, to the current time; of a path with no entry
\* it raises nothing and leaves the manifest, in memory and on disk, as it was.
C26_UpdateAccessTimeFrame ==
    [][(ops' = ops + 1 /\ last'.op = "updateAccessTime")
       => /\ last'.ok
          /\ UNCHANGED <<urls, packs, files>>
          /\ IF HasEntry(samples, last'.path)
             THEN /\ Len(samples') = Len(samples)
                  /\ \A i \in 1..Len(samples) :
                        samples'[i] = IF samples[i].path = last'.path
                                      THEN [samples[i] EXCEPT !.lastAccessed = clock']
                                      ELSE samples[i]
             ELSE UNCHANGED <<samples, disk>>]_vars

C26_Witness ==
    /\ last.op = "updateAccessTime"
    /\ HasEntry(samples, last.path)
    /\ Len(samples) = 2
    /\ EntryOf(samples, last.path).lastAccessed > EntryOf(samples, last.path).cachedAt
    /\ disk = Manifest(samples, urls, packs)

\* C27: clear() leaves the packs map as it was: every pack record is there,
\* identical, after the call.
C27_ClearKeepsPacks ==
    [][(ops' = ops + 1 /\ last'.op = "clear") => packs' = packs]_vars

C27_Witness ==
    /\ last.op = "clear"
    /\ last.had
    /\ samples = <<>>
    /\ \E u \in URLS : packs[u].present

\* the file at p exists and its SHA-256 is the hash recorded for p
Intact(p) ==
    /\ HasEntry(samples, p)
    /\ files[p].exists
    /\ EntryOf(samples, p).hash = [sha256 |-> files[p].bytes]

C24_WitnessFailure ==
    /\ last.op = "verifyAll"
    /\ \E i \in 1..Len(last.report) : ~last.report[i].ok

\* C25: verifySample(p) returns false when p has no entry or no file,
\* otherwise true exactly when the SHA-256 of the bytes on disk is the
\* recorded hash, and it changes neither the manifest nor a file.
C25_VerifySample ==
    [][(ops' = ops + 1 /\ last'.op = "verifySample")
       => /\ UNCHANGED <<samples, urls, packs, files, disk>>
          /\ last'.result = Intact(last'.path)
          /\ (~HasEntry(samples, last'.path) \/ ~ExistsSync(files, last'.path))
                => ~last'.result]_vars

C25_Witness ==
    /\ last.op = "verifySample"
    /\ HasEntry(samples, last.path)
    /\ ExistsSync(files, last.path)
    /\ ~last.result

\* C28: after setByUrl(u1, d1) then setByUrl(u2, d2) of two URLs with the
\* same basename, urls[u1] and urls[u2] are the same path, samples has a
\* single entry for it, describing d2, and getByUrl(u1) returns d2.
C28_SameBasenameLastWins ==
    (last.op = "setByUrl" /\ last.prevUrl \notin {NoPath, last.url})
    => /\ urls[last.prevUrl] = RemotePath(last.url)
       /\ urls[last.url] = RemotePath(last.url)
       /\ Cardinality({i \in 1..Len(samples) : samples[i].path = last.path}) = 1
       /\ EntryOf(samples, last.path).size = Len(last.data)
       /\ EntryOf(samples, last.path).hash = Sha256(last.data)
       /\ getByUrl(urls, files, last.prevUrl) = File(last.data)

\* C29: getByUrl(u) right after setByUrl(u, d) returns the bytes d, and
\* getByUrl of a URL that is not mapped, or whose file is missing, returns
\* null and raises nothing.
C29_SetThenGet ==
    last.op = "getByUrl"
    => /\ last.ok
       /\ last.afterSet => last.got = File(last.data)
       /\ (last.path = NoPath \/ ~ExistsSync(files, last.path)) => last.got = NoFile

\* C30: without locking an update can be lost. When a second process that
\* loaded the manifest completes an addSample, the manifest file is the
\* manifest of that process: it has the entry just written and no entry
\* that only the first process wrote.
C30_LastWriterWins ==
    last.op = "peer.addSample"
    => /\ disk.samples = peer.samples
       /\ \A p \in PATHS :
             (HasEntry(samples, p) /\ ~HasEntry(peer.samples, p))
                => ~HasEntry(disk.samples, p)

C30_Witness ==
    /\ last.op = "peer.addSample"
    /\ HasEntry(disk.samples, last.path)
    /\ \E p \in PATHS :
          /\ HasEntry(samples, p)
          /\ ExistsSync(files, p)
          /\ ~HasEntry(disk.samples, p)

\* C32: a download that resumes over bytes already at the destination never
\* succeeds with a destination file that differs from the server's payload,
\* whatever those bytes were and whether or not expectedHash is supplied.
C32_ResumeNeverCorrupts ==
    (/\ last.op = "downloadPack"
     /\ last.ok
     /\ last.initial.exists
     /\ Len(last.initial.bytes) > 0)
    => files[last.path] = File(ServerPayload)

\* C35: addSample(p, data) with a payload of at most 0.8 * maxSizeBytes never
\* evicts p itself: when it has completed p is a key of samples and its file
\* is on disk, whatever was cached before.
C35_SmallPayloadSurvives ==
    (/\ last.op = "addSample"
     /\ Len(last.data) * 10 <= MaxSizeBytes * 8)
    => /\ HasEntry(samples, last.path)
       /\ ExistsSync(files, last.path)

\* C36: downloadPack(url) called again while the complete file of an earlier
\* successful download of url is at the destination succeeds and leaves the
\* destination equal to the payload.
C36_RepeatedDownloadIdempotent ==
    (/\ last.op = "downloadPack"
     /\ last.initial = File(ServerPayload)
     /\ last.hadUrl
     /\ last.srv # "notfound"
     /\ last.expected # WrongHash)
    => /\ last.ok
       /\ files[last.path] = File(ServerPayload)

\* C33: every successful read of a cached sample through getByUrl or
\* getCachedPath sets the lastAccessed of that sample's entry to the time
\* of the read.
C33_ReadsTouch ==
    [][(/\ ops' = ops + 1
        /\ \/ last'.op = "getByUrl" /\ last'.got # NoFile
           \/ last'.op = "getCachedPath" /\ last'.result
        /\ HasEntry(samples, last'.path))
       => /\ HasEntry(samples', last'.path)
          /\ EntryOf(samples', last'.path).lastAccessed = clock']_vars

\* the extractor of each supported kind of archive
MatchingExtractor(str) ==
    IF EndsWith(FoldCase(str), DotZip) THEN "unzip" ELSE "tar"

\* C31: extraction dispatches on the extension: a downloaded file that is
\* classified as a supported archive is handed to the extractor of its
\* kind, and the unsupported-format error is raised only for a name that is
\* not classified as an archive.
C31_ExtractionDispatch ==
    (last.op = "downloadPack" /\ last.extractor # "")
    => /\ isArchive(Chars(Basename(last.url)))
          => last.extractor = MatchingExtractor(Chars(Basename(last.url)))
       /\ last.err = "unsupported" => ~isArchive(Chars(Basename(last.url)))

\* C34: a downloadPack(url) that fails, at whatever step, leaves packs[url]
\* and urls[url] as they were before the call, in memory and in the
\* manifest file.
C34_FailedPackLeavesNoEntry ==
    (last.op = "downloadPack" /\ ~last.ok)
    => /\ packs[last.url] = last.prevPack
       /\ urls[last.url] = last.prevPath
       /\ disk.packs[last.url] = last.prevPack
       /\ disk.urls[last.url] = last.prevPath

\* C37: when two overlapping addSample calls of one path with different
\* payloads have both completed, the size and the hash of the entry
\* describe the bytes on disk (verifySample is true).
C37_ConcurrentSamePath ==
    (/\ \A i \in CALLERS : calls[i].pc = "done" /\ calls[i].raced
     /\ calls[1].path = calls[2].path
     /\ calls[1].data # calls[2].data)
    => verifySample(samples, files, calls[1].path)

\* C38: no addSample call fails because of the eviction run by an
\* overlapping call: every call completes without error.
C38_NoCallFails ==
    \A i \in CALLERS : calls[i].pc # "failed"

\* C39: after any sequence of initialize, switchMode, stop and cleanup
\* calls, failing ones included, isInitialized = true implies that
\* currentMode is a mode whose initialize() completed and that has not been
\* cleaned up since.
C39_InitializedMeansModeReady ==
    orch.isInitialized => orch.currentMode.state = "initialized"

====
